---- MODULE Spec2Model ----
(***************************************************************************)
(* Optimistic-update mutation layer for the 'categories' collection        *)
(* (CategoryMutations): createCategoryMutation, updateCategoryMutation,    *)
(* repositionCategoryMutation, deleteCategoryMutation.                     *)
(*                                                                         *)
(* JavaScript arrays are heap objects: getQueryData hands out the array    *)
(* the query cache holds (a reference, not a copy), and an updater that    *)
(* assigns to or splices oldCategories changes that very object.  The      *)
(* model therefore keeps a heap of arrays and lets the cache and each      *)
(* invocation's context hold references into it.                           *)
(***************************************************************************)
EXTENDS Integers, Sequences, FiniteSets, TLC

\* ---- bounds ----
NumInv == 2      \* invocations of a mutation in one behaviour
InitLen == 2     \* longest collection at start-up

\* ---- values ----
Inv == 1..NumInv
Titles == {"a", "b"}
NoRef == 0
SentinelId == 0
TargetIds == 0..(InitLen + 1)
Positions == (0 - 1)..InitLen

Category(i, t) == [id |-> i, title |-> t]
NoCategory == Category(0 - 1, "a")

Absent == [has |-> FALSE, val |-> <<>>]
Present(s) == [has |-> TRUE, val |-> s]

\* An UpdateCategoryDto is a partial record: keys names the fields it carries.
Dtos == {[keys |-> {}, title |-> "a"]} \cup {[keys |-> {"title"}, title |-> t] : t \in Titles}
UpdateDtos == {d \in Dtos : d.title = "a" => d.keys = {}}
NoDto == [keys |-> {}, title |-> "a"]

NoReq == [op |-> "none", categoryId |-> 0, dto |-> NoDto, newPosition |-> 0]
Requests ==
    {[op |-> "create", categoryId |-> 0, dto |-> d, newPosition |-> 0] :
        d \in {x \in Dtos : x.keys = {"title"}}}
    \cup {[op |-> "update", categoryId |-> c, dto |-> d, newPosition |-> 0] :
        c \in TargetIds, d \in UpdateDtos}
    \cup {[op |-> "reposition", categoryId |-> c, dto |-> NoDto, newPosition |-> p] :
        c \in TargetIds, p \in Positions}
    \cup {[op |-> "delete", categoryId |-> c, dto |-> NoDto, newPosition |-> 0] :
        c \in TargetIds}

\* The collections the server can hold at start-up: ids 1..n in order.
InitCollection(n) == [k \in 1..n |-> Category(k, "a")]

VARIABLES
    heap,        \* array objects: heap[r] is the contents of the array with reference r
    cache,       \* reference the query cache holds for 'categories', or NoRef
    fetchState,  \* background refetch of 'categories': idle / requested / served
    fetchData,   \* what the server answered to the refetch in flight
    server,      \* the authoritative collection
    nextId,      \* next identity the server assigns
    pc,          \* per invocation: its position in the mutation lifecycle
    req,         \* per invocation: the variables passed to mutate()
    context,     \* per invocation: previousCategories (a reference, or NoRef)
    outcome,     \* per invocation: result of the transport call
    hist         \* per invocation: what it has observed and done so far

vars == <<heap, cache, fetchState, fetchData, server, nextId,
          pc, req, context, outcome, hist>>

CacheData == IF cache = NoRef THEN Absent ELSE Present(heap[cache])

NoHist == [snapshot |-> Absent, before |-> Absent, applied |-> Absent,
           afterError |-> Absent,
           disturbed |-> FALSE, overlapped |-> FALSE, cancelled |-> FALSE,
           pending |-> FALSE, staleInstall |-> FALSE,
           applyWrites |-> 0, errorWrites |-> 0,
           success |-> 0, error |-> 0, invalidations |-> 0]

\* ---- helpers (JavaScript array operations, 0-based indices) ----
Min(a, b) == IF a < b THEN a ELSE b
Max(a, b) == IF a > b THEN a ELSE b

\* Array.prototype.splice(start, 1)
SpliceRemove(s, start) ==
    IF start < 0 \/ start >= Len(s) THEN s
    ELSE [k \in 1..(Len(s) - 1) |-> IF k <= start THEN s[k] ELSE s[k + 1]]

\* Array.prototype.splice(start, 0, item): start is clamped to the length
SpliceInsert(s, start, item) ==
    LET at == Min(Max(start, 0), Len(s))
    IN  [k \in 1..(Len(s) + 1) |->
            IF k <= at THEN s[k] ELSE IF k = at + 1 THEN item ELSE s[k - 1]]

\* Array.prototype.filter(({ id }) => id !== categoryId)
FilterOut(s, categoryId) == SelectSeq(s, LAMBDA e : e.id # categoryId)

\* { ...targetCategoryClone, ...updateCategoryDto }
Overlay(e, dto) ==
    [f \in DOMAIN e |-> IF f \in dto.keys THEN dto[f] ELSE e[f]]

\* ---- collaborators of this repository that src/ does not contain ----

\* utils/common.utils findObjectAndIndexCloneDeep(({ id }) => id === categoryId, list):
\* index of the first match and a deep clone of it, or not found.
findObjectAndIndexCloneDeep(categoryId, list) ==
    LET hits == {k \in 1..Len(list) : list[k].id = categoryId}
    IN  IF hits = {}
        THEN [found |-> FALSE, index |-> 0 - 1, clone |-> NoCategory]
        ELSE LET k == CHOOSE x \in hits : \A y \in hits : x <= y
             IN  [found |-> TRUE, index |-> k - 1, clone |-> list[k]]

\* utils/entity.utils createOptimisticCategory(createCategoryDto): the request's
\* fields, with the server-assigned identity set to the fixed sentinel.
createOptimisticCategory(createCategoryDto) ==
    Category(SentinelId, createCategoryDto.title)

\* ---- the updater functions handed to setQueryData ----
\* An updater answers with the array it returns: inPlace says that it is the
\* array it was given (oldCategories itself, possibly mutated), val its contents.
Fresh(s) == [inPlace |-> FALSE, val |-> s]
Same(s) == [inPlace |-> TRUE, val |-> s]

\* (variant: the new element is put first)
createUpdaterPrepends(oldCategories, createCategoryDto) ==
    LET optimisticNewCategory == createOptimisticCategory(createCategoryDto)
    IN  IF oldCategories.has
        THEN Fresh(<<optimisticNewCategory>> \o oldCategories.val)
        ELSE Fresh(<<optimisticNewCategory>>)

createUpdater(oldCategories, createCategoryDto) ==
    LET optimisticNewCategory == createOptimisticCategory(createCategoryDto)
    IN  IF oldCategories.has
        THEN Fresh(Append(oldCategories.val, optimisticNewCategory))
        ELSE Fresh(<<optimisticNewCategory>>)

\* (variant: the spread order is swapped, the clone's fields win)
updateUpdaterCloneWins(oldCategories, categoryId, updateCategoryDto) ==
    LET t == findObjectAndIndexCloneDeep(categoryId, oldCategories.val)
    IN  IF oldCategories.has /\ t.found
        THEN Same([oldCategories.val EXCEPT ![t.index + 1] = t.clone])
        ELSE Fresh(<<>>)

\* (variant: a target that is not found leaves the collection as it is)
updateUpdaterKeepsOnMiss(oldCategories, categoryId, updateCategoryDto) ==
    LET t == findObjectAndIndexCloneDeep(categoryId, oldCategories.val)
    IN  IF oldCategories.has /\ t.found
        THEN Same([oldCategories.val EXCEPT
                     ![t.index + 1] = Overlay(t.clone, updateCategoryDto)])
        ELSE IF oldCategories.has THEN Same(oldCategories.val) ELSE Fresh(<<>>)

updateUpdater(oldCategories, categoryId, updateCategoryDto) ==
    LET t == findObjectAndIndexCloneDeep(categoryId, oldCategories.val)
    IN  IF oldCategories.has /\ t.found
        THEN Same([oldCategories.val EXCEPT
                     ![t.index + 1] = Overlay(t.clone, updateCategoryDto)])
        ELSE Fresh(<<>>)

\* (variant: the check against the array's length is missing)
repositionUpdaterNoUpperBound(oldCategories, categoryId, newPosition) ==
    LET t == findObjectAndIndexCloneDeep(categoryId, oldCategories.val)
    IN  IF ~oldCategories.has THEN Fresh(<<>>)
        ELSE IF ~t.found THEN Same(oldCategories.val)
        ELSE IF newPosition = t.index \/ newPosition < 0
             THEN Same(oldCategories.val)
             ELSE Same(SpliceInsert(SpliceRemove(oldCategories.val, t.index),
                                    newPosition, t.clone))

repositionUpdater(oldCategories, categoryId, newPosition) ==
    LET t == findObjectAndIndexCloneDeep(categoryId, oldCategories.val)
    IN  IF ~oldCategories.has THEN Fresh(<<>>)
        ELSE IF ~t.found THEN Same(oldCategories.val)
        ELSE IF \/ newPosition = t.index
                \/ newPosition >= Len(oldCategories.val)
                \/ newPosition < 0
             THEN Same(oldCategories.val)
             ELSE Same(SpliceInsert(SpliceRemove(oldCategories.val, t.index),
                                    newPosition, t.clone))

\* (variant: the filter's comparison is inverted)
deleteUpdaterKeepsTarget(oldCategories, categoryId) ==
    IF oldCategories.has
    THEN Fresh(SelectSeq(oldCategories.val, LAMBDA e : e.id = categoryId))
    ELSE Fresh(<<>>)

deleteUpdater(oldCategories, categoryId) ==
    IF oldCategories.has
    THEN Fresh(FilterOut(oldCategories.val, categoryId))
    ELSE Fresh(<<>>)

Updater(r, oldCategories) ==
    CASE r.op = "create" -> createUpdater(oldCategories, r.dto)
      [] r.op = "update" -> updateUpdater(oldCategories, r.categoryId, r.dto)
      [] r.op = "reposition" -> repositionUpdater(oldCategories, r.categoryId, r.newPosition)
      [] OTHER -> deleteUpdater(oldCategories, r.categoryId)

\* ---- the query cache (react-query's QueryClient, key 'categories') ----

\* setQueryData: the cache keeps the array it already holds when the new data is
\* that array or is deeply equal to it, and otherwise installs a new array.
Install(data) ==
    IF cache # NoRef /\ data.inPlace
    THEN heap' = [heap EXCEPT ![cache] = data.val] /\ cache' = cache
    ELSE IF cache # NoRef /\ heap[cache] = data.val
    THEN heap' = heap /\ cache' = cache
    ELSE heap' = Append(heap, data.val) /\ cache' = Len(heap) + 1

\* setQueryData('categories', updater)
setQueryData(r) == Install(Updater(r, CacheData))

\* setQueryData('categories', context.previousCategories)
restoreQueryData(ref) ==
    Install([inPlace |-> (ref = cache), val |-> heap[ref]])

\* invalidateQueries('categories'): starts a refetch.  The file uses the
\* react-query 3 API (string query keys), where a refetch asked for while one is
\* in flight joins the running one instead of restarting it (no cancelRefetch).
invalidateQueries ==
    /\ fetchState' = IF fetchState = "idle" THEN "requested" ELSE fetchState
    /\ fetchData' = fetchData

\* (variant: the refetch in flight is left running)
cancelQueriesSkipped ==
    UNCHANGED <<fetchState, fetchData>>

\* cancelQueries('categories'): the refetch in flight, if any, is dropped.
cancelQueries ==
    /\ fetchState' = "idle"
    /\ fetchData' = <<>>

\* ---- bookkeeping of what each invocation has seen ----
Between(j) == pc[j] \in {"inflight", "served"}
Outstanding(j) == pc[j] \in {"cancel", "inflight", "served", "settling"}
Applied(j) == pc[j] \in {"inflight", "served", "settling", "done"}

\* a refetch starts now: it is pending for every invocation that has not yet
\* made its optimistic write
StartPending(h) ==
    [j \in Inv |-> [h[j] EXCEPT !.pending = @ \/ (fetchState = "idle" /\ ~Applied(j))]]

\* the refetch's result is installed: stale for every invocation that made its
\* optimistic write after the refetch had started
EndPending(h) ==
    [j \in Inv |-> [h[j] EXCEPT !.staleInstall = @ \/ (h[j].pending /\ Applied(j)),
                                !.pending = FALSE]]

\* a cache write by w (0: the refetch) lands between j's APPLY and j's ERROR
Disturb(h, w) ==
    [j \in Inv |-> IF j # w /\ Between(j) THEN [h[j] EXCEPT !.disturbed = TRUE] ELSE h[j]]

\* ---- the mutation lifecycle ----

\* mutate(variables): onMutate runs up to its await of cancelQueries.
\* Invocations are numbered in the order in which they start.
Mutate(i, r) ==
    /\ pc[i] = "idle"
    /\ \A j \in Inv : j < i => pc[j] # "idle"
    /\ cancelQueries
    /\ pc' = [pc EXCEPT ![i] = "cancel"]
    /\ req' = [req EXCEPT ![i] = r]
    /\ hist' = [j \in Inv |->
                 [hist[j] EXCEPT
                    !.overlapped = @ \/ /\ \E k \in Inv \ {i} : Outstanding(k)
                                        /\ (j = i \/ Outstanding(j)),
                    !.cancelled = @ \/ (j = i /\ fetchState # "idle"),
                    !.pending = FALSE]]
    /\ UNCHANGED <<heap, cache, server, nextId, context, outcome>>

\* (variant: previousCategories is read after the optimistic write)
OnMutateSnapshotAfterWrite(i) ==
    /\ pc[i] = "cancel"
    /\ setQueryData(req[i])
    /\ context' = [context EXCEPT ![i] = cache']
    /\ pc' = [pc EXCEPT ![i] = "inflight"]
    /\ hist' = [Disturb(hist, i) EXCEPT
                  ![i].snapshot = Present(heap'[cache']),
                  ![i].before = CacheData,
                  ![i].applied = Present(heap'[cache']),
                  ![i].applyWrites = @ + 1]
    /\ UNCHANGED <<fetchState, fetchData, server, nextId, req, outcome>>

\* onMutate resumes: snapshot, optimistic write, return the context; the
\* transport call is dispatched.
OnMutate(i) ==
    /\ pc[i] = "cancel"
    /\ context' = [context EXCEPT ![i] = cache]
    /\ setQueryData(req[i])
    /\ pc' = [pc EXCEPT ![i] = "inflight"]
    /\ hist' = [Disturb(hist, i) EXCEPT
                  ![i].snapshot = CacheData,
                  ![i].before = CacheData,
                  ![i].applied = Present(heap'[cache']),
                  ![i].applyWrites = @ + 1]
    /\ UNCHANGED <<fetchState, fetchData, server, nextId, req, outcome>>

\* (variant: the refetch is requested from onError, which ends the invocation)
OnErrorSettles(i) ==
    /\ pc[i] = "served" /\ outcome[i] = "rejected"
    /\ IF context[i] # NoRef
       THEN restoreQueryData(context[i])
       ELSE UNCHANGED <<heap, cache>>
    /\ invalidateQueries
    /\ pc' = [pc EXCEPT ![i] = "done"]
    /\ hist' = [StartPending(IF context[i] # NoRef THEN Disturb(hist, i) ELSE hist) EXCEPT
                  ![i].afterError = IF cache' = NoRef THEN Absent ELSE Present(heap'[cache']),
                  ![i].errorWrites = @ + (IF context[i] # NoRef THEN 1 ELSE 0),
                  ![i].error = @ + 1,
                  ![i].invalidations = @ + 1]
    /\ UNCHANGED <<server, nextId, req, context, outcome>>

\* (variant: context.previousCategories is read without the ?. guard, so
\* onError throws when there is no context value and nothing follows it)
OnErrorNeedsSnapshot(i) ==
    /\ pc[i] = "served" /\ outcome[i] = "rejected"
    /\ context[i] # NoRef
    /\ restoreQueryData(context[i])
    /\ pc' = [pc EXCEPT ![i] = "settling"]
    /\ hist' = [Disturb(hist, i) EXCEPT
                  ![i].afterError = Present(heap'[cache']),
                  ![i].errorWrites = @ + 1,
                  ![i].error = @ + 1]
    /\ UNCHANGED <<fetchState, fetchData, server, nextId, req, context, outcome>>

\* (variant: the error toast is missing)
OnErrorSilent(i) ==
    /\ pc[i] = "served" /\ outcome[i] = "rejected"
    /\ IF context[i] # NoRef
       THEN restoreQueryData(context[i])
       ELSE UNCHANGED <<heap, cache>>
    /\ pc' = [pc EXCEPT ![i] = "settling"]
    /\ hist' = [(IF context[i] # NoRef THEN Disturb(hist, i) ELSE hist) EXCEPT
                  ![i].afterError = IF cache' = NoRef THEN Absent ELSE Present(heap'[cache']),
                  ![i].errorWrites = @ + (IF context[i] # NoRef THEN 1 ELSE 0)]
    /\ UNCHANGED <<fetchState, fetchData, server, nextId, req, context, outcome>>

\* onError: roll back to the context's previousCategories, then toast.error.
OnError(i) ==
    /\ pc[i] = "served" /\ outcome[i] = "rejected"
    /\ IF context[i] # NoRef
       THEN restoreQueryData(context[i])
       ELSE UNCHANGED <<heap, cache>>
    /\ pc' = [pc EXCEPT ![i] = "settling"]
    /\ hist' = [(IF context[i] # NoRef THEN Disturb(hist, i) ELSE hist) EXCEPT
                  ![i].afterError = IF cache' = NoRef THEN Absent ELSE Present(heap'[cache']),
                  ![i].errorWrites = @ + (IF context[i] # NoRef THEN 1 ELSE 0),
                  ![i].error = @ + 1]
    /\ UNCHANGED <<fetchState, fetchData, server, nextId, req, context, outcome>>

\* (variant: onSuccess puts the server's data into the cache)
OnSuccessRefreshesCache(i) ==
    /\ pc[i] = "served" /\ outcome[i] = "resolved"
    /\ Install(Fresh(server))
    /\ pc' = [pc EXCEPT ![i] = "settling"]
    /\ hist' = [Disturb(hist, i) EXCEPT ![i].success = @ + 1]
    /\ UNCHANGED <<fetchState, fetchData, server, nextId, req, context, outcome>>

\* onSuccess: toast.success.
OnSuccess(i) ==
    /\ pc[i] = "served" /\ outcome[i] = "resolved"
    /\ pc' = [pc EXCEPT ![i] = "settling"]
    /\ hist' = [hist EXCEPT ![i].success = @ + 1]
    /\ UNCHANGED <<heap, cache, fetchState, fetchData, server, nextId, req, context, outcome>>

\* (variant: the refetch is requested on success only)
OnSettledOnlyOnSuccess(i) ==
    /\ pc[i] = "settling"
    /\ IF outcome[i] = "resolved"
       THEN invalidateQueries /\ hist' = [StartPending(hist) EXCEPT ![i].invalidations = @ + 1]
       ELSE UNCHANGED <<fetchState, fetchData, hist>>
    /\ pc' = [pc EXCEPT ![i] = "done"]
    /\ UNCHANGED <<heap, cache, server, nextId, req, context, outcome>>

\* onSettled: invalidateQueries('categories').
OnSettled(i) ==
    /\ pc[i] = "settling"
    /\ invalidateQueries
    /\ pc' = [pc EXCEPT ![i] = "done"]
    /\ hist' = [StartPending(hist) EXCEPT ![i].invalidations = @ + 1]
    /\ UNCHANGED <<heap, cache, server, nextId, req, context, outcome>>

\* ---- the transport collaborator and the server behind it ----
ServerHas(categoryId) == \E k \in 1..Len(server) : server[k].id = categoryId

ServerApply(r) ==
    CASE r.op = "create" -> Append(server, Category(nextId, r.dto.title))
      [] r.op = "update" -> updateUpdater(Present(server), r.categoryId, r.dto).val
      [] r.op = "reposition" -> repositionUpdater(Present(server), r.categoryId, r.newPosition).val
      [] OTHER -> FilterOut(server, r.categoryId)

\* the call resolves: the server has applied the request
TransportResolve(i) ==
    /\ pc[i] = "inflight"
    /\ req[i].op \in {"update", "reposition"} => ServerHas(req[i].categoryId)
    /\ server' = ServerApply(req[i])
    /\ nextId' = IF req[i].op = "create" THEN nextId + 1 ELSE nextId
    /\ outcome' = [outcome EXCEPT ![i] = "resolved"]
    /\ pc' = [pc EXCEPT ![i] = "served"]
    /\ UNCHANGED <<heap, cache, fetchState, fetchData, req, context, hist>>

\* the call rejects: the server is unchanged
TransportReject(i) ==
    /\ pc[i] = "inflight"
    /\ outcome' = [outcome EXCEPT ![i] = "rejected"]
    /\ pc' = [pc EXCEPT ![i] = "served"]
    /\ UNCHANGED <<heap, cache, fetchState, fetchData, server, nextId, req, context, hist>>

\* the server answers the refetch with the collection it holds now
FetchServe ==
    /\ fetchState = "requested"
    /\ fetchState' = "served"
    /\ fetchData' = server
    /\ UNCHANGED <<heap, cache, server, nextId, pc, req, context, outcome, hist>>

\* the answer arrives and becomes the cached collection
FetchComplete ==
    /\ fetchState = "served"
    /\ Install(Fresh(fetchData))
    /\ fetchState' = "idle"
    /\ fetchData' = <<>>
    /\ hist' = EndPending(Disturb(hist, 0))
    /\ UNCHANGED <<server, nextId, pc, req, context, outcome>>

\* Start-up: either the collection has been fetched and nothing is in flight,
\* or nothing is cached yet and the first fetch is on its way.
Init ==
    /\ \E n \in 0..InitLen : server = InitCollection(n)
    /\ nextId = InitLen + 1
    /\ \/ heap = <<server>> /\ cache = 1 /\ fetchState = "idle"
       \/ heap = <<>> /\ cache = NoRef /\ fetchState = "requested"
    /\ fetchData = <<>>
    /\ pc = [i \in Inv |-> "idle"]
    /\ req = [i \in Inv |-> NoReq]
    /\ context = [i \in Inv |-> NoRef]
    /\ outcome = [i \in Inv |-> "none"]
    /\ hist = [i \in Inv |-> [NoHist EXCEPT !.pending = (fetchState = "requested")]]

Next ==
    \/ \E i \in Inv, r \in Requests : Mutate(i, r)
    \/ \E i \in Inv : OnMutate(i)
    \/ \E i \in Inv : TransportResolve(i)
    \/ \E i \in Inv : TransportReject(i)
    \/ \E i \in Inv : OnSuccess(i)
    \/ \E i \in Inv : OnError(i)
    \/ \E i \in Inv : OnSettled(i)
    \/ FetchServe
    \/ FetchComplete

Spec == Init /\ [][Next]_vars

\* The cancellation wait and the transport call of every invocation complete,
\* and the library runs the callback that is due.
Fairness ==
    \A i \in Inv :
        /\ WF_vars(OnMutate(i))
        /\ WF_vars(TransportResolve(i) \/ TransportReject(i))
        /\ WF_vars(OnSuccess(i))
        /\ WF_vars(OnError(i))
        /\ WF_vars(OnSettled(i))

\* Whether an invocation settles does not depend on what it asks for: the
\* behaviours with fairness take their requests from one or two per operation.
LiveRequests ==
    {r \in Requests : r.categoryId \in {0, 1} /\ r.newPosition = 0 /\ r.dto.title = "a"}

LiveNext ==
    \/ \E i \in Inv, r \in LiveRequests : Mutate(i, r)
    \/ \E i \in Inv : OnMutate(i)
    \/ \E i \in Inv : TransportResolve(i)
    \/ \E i \in Inv : TransportReject(i)
    \/ \E i \in Inv : OnSuccess(i)
    \/ \E i \in Inv : OnError(i)
    \/ \E i \in Inv : OnSettled(i)
    \/ FetchServe
    \/ FetchComplete

FairSpec == Init /\ [][LiveNext]_vars /\ Fairness

\* ======================= properties =======================
Errored(i) == pc[i] \in {"settling", "done"} /\ outcome[i] = "rejected"
HasId(s, c) == \E k \in 1..Len(s) : s[k].id = c
FirstIndex(s, c) == CHOOSE k \in 1..Len(s) : s[k].id = c /\ \A m \in 1..(k - 1) : s[m].id # c
Without(s, k) == [m \in 1..(Len(s) - 1) |-> IF m < k THEN s[m] ELSE s[m + 1]]

\* C1 (as claimed): an invocation that ran alone and whose transport call
\* failed leaves, after its ERROR phase, exactly the collection that was cached
\* immediately before its APPLY phase.
C1_RollbackRestores ==
    \A i \in Inv :
        (Errored(i) /\ hist[i].before.has /\ ~hist[i].overlapped /\ ~hist[i].disturbed)
            => hist[i].afterError = hist[i].before

\* C2 (as claimed): between SNAPSHOT and SETTLED previousCategories still has
\* the contents it was captured with, and no two invocations in flight hold
\* the same snapshot object.
C2_SnapshotIndependent ==
    /\ \A i \in Inv :
        (pc[i] \in {"inflight", "served", "settling"} /\ context[i] # NoRef)
            => heap[context[i]] = hist[i].before.val
    /\ \A i, j \in Inv :
        (i # j /\ Applied(i) /\ Applied(j) /\ pc[i] # "done" /\ pc[j] # "done"
           /\ context[i] # NoRef) => context[i] # context[j]

\* C3: every invocation invalidates the key exactly once, on success and on
\* failure alike, and only after its success or error notification.
C3_SettlementInvariant ==
    \A i \in Inv :
        /\ hist[i].invalidations = IF pc[i] = "done" THEN 1 ELSE 0
        /\ hist[i].invalidations > 0 => hist[i].success + hist[i].error = 1
        /\ pc[i] = "done" =>
              /\ outcome[i] = "resolved" => hist[i].success = 1 /\ hist[i].error = 0
              /\ outcome[i] = "rejected" => hist[i].error = 1 /\ hist[i].success = 0

C3_Witness ==
    \E i, j \in Inv :
        /\ pc[i] = "done" /\ outcome[i] = "resolved"
        /\ pc[j] = "done" /\ outcome[j] = "rejected"

\* C4 (as claimed, in the form a finite run decides): once every invocation
\* has settled and no refetch is left to complete, the cached collection is
\* the server's collection.
C4_Reconciled ==
    ( /\ \A i \in Inv : pc[i] \in {"idle", "done"}
      /\ \E i \in Inv : pc[i] = "done"
      /\ fetchState = "idle" )
        => (cache # NoRef /\ heap[cache] = server)

\* C5 (as claimed): at most one synchronization is outstanding for the key at
\* a time: no two invocations are between APPLY and SETTLED together, so that
\* neither can write over the other's speculative state.
C5_SingleOutstanding ==
    \A i, j \in Inv :
        (i # j) => ~(/\ pc[i] \in {"inflight", "served", "settling"}
                     /\ pc[j] \in {"inflight", "served", "settling"})

\* C5 (amended): it is the background refetch of the key that is never left
\* outstanding: every invocation, as it starts, cancels the refetch in flight.
C5_RefetchCancelledAtStart ==
    [][\A i \in Inv : (pc[i] = "idle" /\ pc'[i] = "cancel") => fetchState' = "idle"]_vars

C5_Witness ==
    \E i, j \in Inv :
        /\ pc[i] = "done" /\ pc[j] = "cancel"
        /\ hist[j].cancelled /\ fetchState = "idle"

\* C6 (as claimed): no two entities of the cached collection carry the same
\* identity.
C6_IdentityUnique ==
    cache # NoRef =>
        \A k, m \in 1..Len(heap[cache]) : k # m => heap[cache][k].id # heap[cache][m].id

\* C7: create's APPLY installs the previous collection with exactly one
\* element appended, whose user-supplied fields are the request's; with
\* nothing cached it installs the one-element collection.
C7_CreateShape ==
    \A i \in Inv :
        (req[i].op = "create" /\ Applied(i)) =>
            LET b == hist[i].before.val
                a == hist[i].applied.val
            IN  /\ hist[i].applied.has
                /\ ~hist[i].before.has => Len(a) = 1
                /\ Len(a) = Len(b) + 1
                /\ \A k \in 1..Len(b) : a[k] = b[k]
                /\ a[Len(a)].title = req[i].dto.title

C7_Witness ==
    \E i, j \in Inv :
        /\ req[i].op = "create" /\ Applied(i) /\ ~hist[i].before.has
        /\ req[j].op = "create" /\ Applied(j) /\ hist[j].before.has
        /\ Len(hist[j].before.val) >= 1
        /\ req[j].dto.title # req[i].dto.title

\* C8: with the target cached, update's APPLY installs a collection of the
\* same length whose element at the target's index is the previous one with
\* the request's fields overlaid, every other element unchanged.
C8_UpdateMerge ==
    \A i \in Inv :
        (req[i].op = "update" /\ Applied(i) /\ hist[i].before.has
           /\ HasId(hist[i].before.val, req[i].categoryId)) =>
            LET b == hist[i].before.val
                a == hist[i].applied.val
                t == FirstIndex(b, req[i].categoryId)
            IN  /\ Len(a) = Len(b)
                /\ \A k \in 1..Len(b) : k # t => a[k] = b[k]
                /\ a[t].id = b[t].id
                /\ a[t].title = IF "title" \in req[i].dto.keys
                                THEN req[i].dto.title ELSE b[t].title

C8_Witness ==
    \E i \in Inv :
        /\ req[i].op = "update" /\ Applied(i) /\ hist[i].before.has
        /\ Len(hist[i].before.val) >= 2
        /\ HasId(hist[i].before.val, req[i].categoryId)
        /\ FirstIndex(hist[i].before.val, req[i].categoryId) = 2
        /\ hist[i].applied.val[2].title # hist[i].before.val[2].title

\* C9: reposition of the target at index t to newPosition p leaves the
\* collection as it is when p = t, p < 0 or p >= N; otherwise the result has
\* length N, the moved element at index p and the others in their order.
C9_RepositionBoundary ==
    \A i \in Inv :
        (req[i].op = "reposition" /\ Applied(i) /\ hist[i].before.has
           /\ HasId(hist[i].before.val, req[i].categoryId)) =>
            LET b == hist[i].before.val
                a == hist[i].applied.val
                t == FirstIndex(b, req[i].categoryId) - 1
                p == req[i].newPosition
            IN  IF p = t \/ p < 0 \/ p >= Len(b)
                THEN a = b
                ELSE /\ Len(a) = Len(b)
                     /\ a[p + 1] = b[t + 1]
                     /\ Without(a, p + 1) = Without(b, t + 1)

C9_Witness ==
    \E i \in Inv :
        /\ req[i].op = "reposition" /\ Applied(i) /\ hist[i].before.has
        /\ Len(hist[i].before.val) >= 3
        /\ HasId(hist[i].before.val, req[i].categoryId)
        /\ FirstIndex(hist[i].before.val, req[i].categoryId) = 3
        /\ req[i].newPosition = 0
        /\ hist[i].applied.val[1] = hist[i].before.val[3]

\* C10: delete's APPLY installs exactly the elements of the previous
\* collection whose identity is not the target's, in their order; with the
\* target not cached the collection is unchanged.
C10_DeleteExclusivity ==
    \A i \in Inv :
        (req[i].op = "delete" /\ Applied(i) /\ hist[i].before.has) =>
            LET b == hist[i].before.val
                a == hist[i].applied.val
                kept == {k \in 1..Len(b) : b[k].id # req[i].categoryId}
            IN  /\ Len(a) = Cardinality(kept)
                /\ \A k \in kept : a[Cardinality({m \in kept : m <= k})] = b[k]
                /\ ~HasId(b, req[i].categoryId) => a = b

C10_Witness ==
    \E i \in Inv :
        /\ req[i].op = "delete" /\ Applied(i) /\ hist[i].before.has
        /\ Len(hist[i].before.val) >= 3
        /\ hist[i].before.val[2].id = req[i].categoryId
        /\ Len(hist[i].applied.val) = Len(hist[i].before.val) - 1

\* C11 (as claimed): an invocation made with nothing cached has no
\* previousCategories, its ERROR phase writes nothing, and after the failed
\* call the cache entry is absent or empty.
C11_NoSnapshotRollback ==
    \A i \in Inv :
        (Errored(i) /\ ~hist[i].before.has /\ ~hist[i].overlapped /\ ~hist[i].disturbed) =>
            /\ context[i] = NoRef
            /\ hist[i].errorWrites = 0
            /\ (~hist[i].afterError.has \/ hist[i].afterError.val = <<>>)

\* C12 (as claimed): a refetch that was started before an invocation's APPLY
\* never installs its result after that APPLY.
C12_NoStaleInstall ==
    \A i \in Inv : ~hist[i].staleInstall

\* C13: an invocation goes through PENDING_CANCEL, SNAPSHOT + APPLY,
\* IN_FLIGHT, one of SUCCESS and ERROR, SETTLED, in this order, each once, and
\* the transport call is dispatched only with the optimistic write made.
C13_PhaseOrder ==
    [][\A i \in Inv :
         /\ pc'[i] # pc[i] =>
              <<pc[i], pc'[i]>> \in {<<"idle", "cancel">>, <<"cancel", "inflight">>,
                                    <<"inflight", "served">>, <<"served", "settling">>,
                                    <<"settling", "done">>}
         /\ (pc[i] = "cancel" /\ pc'[i] = "inflight") =>
              /\ hist[i].applyWrites = 0 /\ hist'[i].applyWrites = 1
              /\ outcome[i] = "none"
         /\ (pc[i] = "inflight" /\ pc'[i] # pc[i]) =>
              /\ hist[i].applyWrites = 1 /\ hist[i].success + hist[i].error = 0
              /\ outcome'[i] \in {"resolved", "rejected"}
         /\ (pc[i] = "served" /\ pc'[i] # pc[i]) =>
              /\ hist'[i].success = IF outcome[i] = "resolved" THEN 1 ELSE 0
              /\ hist'[i].error = IF outcome[i] = "rejected" THEN 1 ELSE 0
              /\ hist'[i].invalidations = 0
         /\ (pc[i] = "settling" /\ pc'[i] # pc[i]) =>
              /\ hist[i].invalidations = 0 /\ hist'[i].invalidations = 1
       ]_vars

C13_Witness ==
    \E i \in Inv :
        /\ pc[i] = "done" /\ outcome[i] = "rejected"
        /\ hist[i].applyWrites = 1 /\ hist[i].error = 1 /\ hist[i].invalidations = 1
        /\ hist[i].overlapped

\* C14: with the cancellation wait and the transport call completing, every
\* started invocation reaches SETTLED and invalidates the key, whatever other
\* invocations do meanwhile.
C14_EverySettles ==
    \A i \in Inv : (pc[i] = "cancel") ~> (pc[i] = "done" /\ hist[i].invalidations = 1)

C14_Witness ==
    \E i, j \in Inv :
        /\ i < j /\ pc[i] = "done" /\ hist[i].invalidations = 1
        /\ pc[j] = "done" /\ hist[j].invalidations = 1
        /\ hist[i].overlapped /\ hist[j].overlapped
        /\ outcome[i] = "rejected" /\ outcome[j] = "resolved"

\* C15: every invocation makes one cache write in APPLY, at most one more (the
\* rollback, in ERROR only), and one notification: success and no error when
\* the call resolves, error and no success when it rejects.
C15_SideEffectCounts ==
    \A i \in Inv :
        /\ hist[i].applyWrites = IF Applied(i) THEN 1 ELSE 0
        /\ hist[i].errorWrites <= 1
        /\ hist[i].errorWrites = 1 => Errored(i)
        /\ pc[i] \in {"settling", "done"} =>
              /\ hist[i].success = IF outcome[i] = "resolved" THEN 1 ELSE 0
              /\ hist[i].error = IF outcome[i] = "rejected" THEN 1 ELSE 0
        /\ pc[i] \notin {"settling", "done"} => hist[i].success + hist[i].error = 0

C15_Witness ==
    \E i, j \in Inv :
        /\ pc[i] = "done" /\ outcome[i] = "rejected" /\ hist[i].errorWrites = 1
        /\ pc[j] = "done" /\ outcome[j] = "resolved" /\ hist[j].errorWrites = 0

\* C16: with the target not in the cached collection APPLY installs the empty
\* collection for update and leaves the collection as it is for reposition and
\* delete; with nothing cached the three still complete APPLY (installing the
\* empty collection); an error notification comes only from a failed call.
C16_DegradedTransforms ==
    \A i \in Inv :
        (req[i].op \in {"update", "reposition", "delete"} /\ Applied(i)) =>
            LET b == hist[i].before
                a == hist[i].applied
            IN  /\ a.has
                /\ (b.has /\ ~HasId(b.val, req[i].categoryId)) =>
                      a.val = IF req[i].op = "update" THEN <<>> ELSE b.val
                /\ ~b.has => a.val = <<>>
                /\ hist[i].error > 0 => outcome[i] = "rejected"

C16_Witness ==
    \E i, j \in Inv :
        /\ req[j].op \in {"reposition", "delete"} /\ Applied(j) /\ ~hist[j].before.has
        /\ req[i].op = "update" /\ pc[i] = "inflight"
        /\ hist[i].before.has /\ Len(hist[i].before.val) >= 1
        /\ ~HasId(hist[i].before.val, req[i].categoryId)
        /\ hist[i].applied.val = <<>> /\ hist[i].error = 0

\* C17: SNAPSHOT and APPLY are one step: no state lies between the read of
\* previousCategories and the optimistic write, and the collection the updater
\* is given is the one captured as previousCategories.
C17_AtomicSnapshotApply ==
    \A i \in Inv :
        /\ ~Applied(i) => (context[i] = NoRef /\ ~hist[i].snapshot.has
                            /\ hist[i].applyWrites = 0)
        /\ Applied(i) => (hist[i].snapshot = hist[i].before
                           /\ hist[i].snapshot.has = (context[i] # NoRef))

C17_Witness ==
    \E i, j \in Inv :
        /\ i # j /\ Applied(i) /\ Applied(j) /\ hist[i].overlapped
        /\ hist[j].before.has /\ hist[j].applied # hist[j].before
        /\ hist[i].snapshot = hist[j].applied
        /\ hist[i].applied # hist[i].snapshot

\* C18 (as claimed): a failed invocation's ERROR phase puts its
\* previousCategories, as captured, back into the cache, also when another
\* invocation has written the cache since the capture: that write is gone.
C18_RollbackIgnoresWrites ==
    \A i \in Inv :
        (Errored(i) /\ hist[i].before.has /\ hist[i].disturbed)
            => hist[i].afterError = hist[i].before

\* C19: the SUCCESS phase (and SETTLED after it) writes nothing to the cache:
\* the speculative collection stays until a refetch completes, and the entity
\* the server returned is not put into the cache.
C19_SuccessLeavesCache ==
    [][\A i \in Inv :
         /\ (outcome[i] = "resolved" /\ pc[i] \in {"served", "settling"} /\ pc'[i] # pc[i])
               => (cache' = cache /\ heap' = heap)
         /\ (outcome[i] = "resolved" /\ pc[i] = "settling" /\ ~hist[i].overlapped)
               => CacheData = hist[i].applied
       ]_vars

C19_Witness ==
    \E i \in Inv :
        /\ req[i].op = "create" /\ pc[i] = "done" /\ outcome[i] = "resolved"
        /\ ~hist[i].overlapped /\ fetchState # "idle"
        /\ cache # NoRef /\ heap[cache] = hist[i].applied.val
        /\ heap[cache][Len(heap[cache])].id = SentinelId
        /\ heap[cache] # server

====
